---- MODULE Spec2Model ----
(***************************************************************************)
(* salty-server: forecast-cycle resolution, the dataset cache of the wave  *)
(* path (WaveDataProcessor), the grid-file cache and the per-hour          *)
(* acquisition of the wind path (GFSFileStorage, GFSWindClient), and the   *)
(* request handlers that sit on top of them.                               *)
(*                                                                         *)
(* Times are minutes since 00:00Z of day 0; a date is a day number.        *)
(* Model-run hours are the strings the code passes around ("00".."18").    *)
(***************************************************************************)
EXTENDS Integers, Sequences, FiniteSets, TLC

VARIABLES
    feature,            \* which feature's handlers the behaviour exercises
    now,                \* wall clock, datetime.now(timezone.utc)
    cached_dataset,     \* WaveDataProcessor._cached_dataset
    cached_model_run,   \* WaveDataProcessor._cached_model_run
    cached_date,        \* the date argument of the call that stored the cache
                        \* (the code keeps no such field)
    cached_for,         \* the call whose assembly made cached_dataset: its date
                        \* and run (the code keeps no such field)
    preload,            \* preload_dataset's call on the executor thread
    load,               \* the last _load_forecast_dataset call: arguments and outcome
    wave_resp,          \* the response of the wave request being answered
    wind_model_run,     \* GFSWindClient.model_run
    dir,                \* GFSFileStorage.base_dir: file name -> content
    wind,               \* the wind request in progress: its locals
    op,                 \* the storage operation just performed: what it saw and did
    wind_resp,          \* the response of the wind request being answered
    calc                \* one call of a computation on its own: its arguments
                        \* and, once it has run, its result

waveVars == <<now, cached_dataset, cached_model_run, cached_date, cached_for, preload,
              load, wave_resp>>

windVars == <<wind_model_run, dir, wind, op, wind_resp>>

vars == <<feature, now, cached_dataset, cached_model_run, cached_date, cached_for,
          preload, load,
          wave_resp,
          wind_model_run, dir, wind, op, wind_resp, calc>>

-----------------------------------------------------------------------------
(* Bounds of the model *)

\* dates 0..MaxDate are the run dates a caller may pass
MaxDate == 1

\* a directory holds at most MaxFiles of the files a call probes
MaxFiles == 2

\* the storage directory of the wind client starts with at most MaxStored files
MaxStored == 1

\* a wind request walks the first MaxWindHours of its forecast hours
MaxWindHours == 2

-----------------------------------------------------------------------------
(* Configuration (core.config.settings) *)

\* settings.model_runs
ModelRuns == {"00", "06", "12", "18"}

\* settings.forecast_hours, in list order
ForecastHours == <<0, 6, 30>>

\* settings.models['atlantic']['name']
BasinName == "atlantic"

\* timedelta(hours=3, minutes=30), in minutes
PublishLatency == 210

\* max_hours of the current run and of any other run
MaxHoursCurrent == 120
MaxHoursOther == 24

-----------------------------------------------------------------------------
(* Strings *)

\* str.zfill(2)
Zfill2(s) == IF Len(s) < 2 THEN "0" \o s ELSE s

\* str.zfill(3)
Zfill3(s) == IF Len(s) < 2 THEN "00" \o s ELSE IF Len(s) < 3 THEN "0" \o s ELSE s

\* int(s) for the strings of two decimal digits: the n that prints as s
IntOfTable == [s \in {Zfill2(ToString(n)) : n \in 0..99} |->
                  CHOOSE n \in 0..99 : Zfill2(ToString(n)) = s]

\* int("06") = 6
IntOf(s) == IntOfTable[s]

\* the value of x, computed once
Once(x) == CHOOSE v \in {x} : TRUE

\* the absent value of an Optional dataset; an assembled dataset is never empty
None == <<>>

\* the absent value of _cached_model_run
NoRun == "None"

-----------------------------------------------------------------------------
(* Model runs and the resolver part of _load_forecast_dataset *)

Dates == 0..MaxDate

Cycles == [date : Dates, run : ModelRuns]

\* datetime.strptime(f"{date} {model_run}00", "%Y%m%d %H%M")
RunTime(date, run) == date * 1440 + IntOf(run) * 60

\* a latency check that passes one minute early
UsableEarly(t, date, run) == (t - RunTime(date, run)) >= PublishLatency - 1

\* (datetime.now(timezone.utc) - run_time) >= timedelta(hours=3, minutes=30)
Usable(t, date, run) == (t - RunTime(date, run)) >= PublishLatency

\* str(int(model_run) - 6).zfill(2)
PrevRunHours == [model_run \in ModelRuns |-> Zfill2(ToString(IntOf(model_run) - 6))]

\* a lookback that takes the 18z run of the same day
PrevRunSameDay(model_run, date) ==
    LET prev_run == PrevRunHours[model_run]
    IN  [date |-> date, run |-> IF prev_run \notin ModelRuns THEN "18" ELSE prev_run]

\* the six-hour lookback, rolling to yesterday's 18z
PrevRun(model_run, date) ==
    LET prev_run == PrevRunHours[model_run]
    IN  IF prev_run \notin ModelRuns
        THEN [date |-> date - 1, run |-> "18"]
        ELSE [date |-> date, run |-> prev_run]

\* needed_runs: the current run, then the previous run, each if usable
NeededRuns(t, model_run, date) ==
    LET prev == PrevRun(model_run, date)
    IN  (IF Usable(t, date, model_run)
         THEN <<[date |-> date, run |-> model_run]>> ELSE <<>>)
        \o
        (IF Usable(t, prev.date, prev.run) THEN <<prev>> ELSE <<>>)

-----------------------------------------------------------------------------
(* Basin-mode files and their loading *)

\* f"gfswave.t{run_hour}z.{name}.f{str(hour).zfill(3)}.grib2": no date in the name
WaveFileNames ==
    [run_hour \in ModelRuns, hour \in {ForecastHours[i] : i \in 1..Len(ForecastHours)} |->
        "gfswave.t" \o run_hour \o "z." \o BasinName \o ".f"
            \o Zfill3(ToString(hour)) \o ".grib2"]

\* the file name of one hour of one run
WaveFileName(run_hour, hour) == WaveFileNames[run_hour, hour]

\* the (hour, file_path) list of one run: the configured hours up to max_hours
\* whose file exists, in list order
RECURSIVE ForecastFiles(_, _, _, _)
ForecastFiles(hours, run, max_hours, files) ==
    IF hours = <<>> THEN <<>>
    ELSE LET hour == Head(hours)
             rest == ForecastFiles(Tail(hours), run, max_hours, files)
             path == WaveFileName(run.run, hour)
         IN  IF hour <= max_hours /\ path \in files
             THEN <<[run |-> run, hour |-> hour, path |-> path]>> \o rest
             ELSE rest

\* max_hours = 24 if run_date != date or run_hour != model_run else 120
MaxHours(run, model_run, date) ==
    IF run.date # date \/ run.run # model_run THEN MaxHoursOther ELSE MaxHoursCurrent

\* the names one call tests for existence: each hour up to max_hours of the
\* current and of the previous run
ProbedNames(model_run, date) ==
    LET prev == PrevRun(model_run, date)
        cur  == [date |-> date, run |-> model_run]
    IN  {WaveFileName(r.run, ForecastHours[i]) :
            <<r, i>> \in {<<q, j>> \in {cur, prev} \X (1..Len(ForecastHours)) :
                            ForecastHours[j] <= MaxHours(q, model_run, date)}}

\* every file the loop over needed_runs opens, in the order it opens them
RECURSIVE FilesToOpen(_, _, _, _)
FilesToOpen(runs, model_run, date, files) ==
    IF runs = <<>> THEN <<>>
    ELSE ForecastFiles(ForecastHours, Head(runs),
                       MaxHours(Head(runs), model_run, date), files)
         \o FilesToOpen(Tail(runs), model_run, date, files)

\* the slice of one opened file, tagged forecast_time = run_time + hour
Slice(f) ==
    [time     |-> RunTime(f.run.date, f.run.run) + f.hour * 60,
     run      |-> f.run,
     hour     |-> f.hour,
     closed   |-> FALSE]

\* ds.close() in the handler of a failed open closes the dataset `ds` still names:
\* the one opened last
CloseLast(all) ==
    [all EXCEPT ![Len(all)].closed = TRUE]

\* the loop of opens. failing: the paths whose xr.open_dataset raises.
\* A failure while `ds` is still unbound (nothing opened yet) raises from the
\* handler itself and leaves the loops.
RECURSIVE OpenAll(_, _, _)
OpenAll(todo, failing, all) ==
    IF todo = <<>> THEN [all |-> all, raised |-> FALSE]
    ELSE IF Head(todo).path \notin failing
         THEN OpenAll(Tail(todo), failing, Append(all, Slice(Head(todo))))
         ELSE IF all = <<>>
              THEN [all |-> all, raised |-> TRUE]
              ELSE OpenAll(Tail(todo), failing, CloseLast(all))

-----------------------------------------------------------------------------
(* Assembly *)

\* insertion of x after every element whose time is not later: a stable sort step
RECURSIVE InsertByTime(_, _)
InsertByTime(x, sorted) ==
    IF sorted = <<>> THEN <<x>>
    ELSE IF Head(sorted).time <= x.time
         THEN <<Head(sorted)>> \o InsertByTime(x, Tail(sorted))
         ELSE <<x>> \o sorted

\* list.sort(key=lambda x: x[0]): stable
RECURSIVE SortByTime(_)
SortByTime(all) ==
    IF all = <<>> THEN <<>>
    ELSE InsertByTime(all[Len(all)], SortByTime(SubSeq(all, 1, Len(all) - 1)))

\* a deduplication in which the last slice seen for each time is kept
KeepLast(all, seen) ==
    LET idx == {i \in 1..Len(all) :
                    \A j \in (i + 1)..Len(all) : all[j].time # all[i].time}
    IN  [k \in 1..Cardinality(idx) |->
            all[CHOOSE i \in idx : Cardinality({j \in idx : j < i}) = k - 1]]

\* unique_datasets: the first slice seen for each time is kept
RECURSIVE KeepFirst(_, _)
KeepFirst(all, seen) ==
    IF all = <<>> THEN <<>>
    ELSE IF Head(all).time \in seen
         THEN KeepFirst(Tail(all), seen)
         ELSE <<Head(all)>> \o KeepFirst(Tail(all), seen \cup {Head(all).time})

\* no deduplication: every slice is kept
UniqueDatasetsAll(sorted) == sorted

\* unique_datasets after the loop over the sorted list
UniqueDatasets(sorted) == KeepFirst(sorted, {})

\* all_datasets.sort, first-wins per time, xr.concat of sorted(items), sortby('time')
Combine(all_datasets) ==
    SortByTime(SortByTime(UniqueDatasets(SortByTime(all_datasets))))

-----------------------------------------------------------------------------
(* WaveDataProcessor._load_forecast_dataset *)

\* the cache test that opens the function
CacheHit(model_run, date) ==
    cached_dataset # None /\ cached_model_run = model_run

\* the handler of the outer try: the cached dataset if there is one, else None
OnException ==
    IF cached_dataset # None THEN cached_dataset ELSE None

\* what the check after the loops returns when nothing was loaded
OnNothingLoaded == None

\* One call. files: the probed names that exist; failing: the paths whose open
\* raises; closed_read_fails: whether xr.concat raises on a dataset closed
\* before it (library behaviour the code does not control).
\* store: whether the call writes the cache, and with what; openable: the files
\* the loops are to open whose open does not raise (run and hour of each).
LoadForecastDataset(model_run, date, files, failing, closed_read_fails) ==
    LET needed_runs == Once(NeededRuns(now, model_run, date))
        to_open     == Once(FilesToOpen(needed_runs, model_run, date, files))
        opened      == Once(OpenAll(to_open, failing, <<>>))
        combined    == Combine(opened.all)
        base        == [model_run |-> model_run, date |-> date,
                        needed_runs |-> needed_runs, all_datasets |-> <<>>,
                        store |-> FALSE,
                        openable |-> {[run |-> to_open[k].run, hour |-> to_open[k].hour] :
                                        k \in {j \in 1..Len(to_open) :
                                                  to_open[j].path \notin failing}}]
    IN  IF CacheHit(model_run, date)
        THEN [base EXCEPT !.needed_runs = <<>>, !.openable = {}]
                @@ [outcome |-> "hit", result |-> cached_dataset]
        ELSE IF needed_runs = <<>>
        THEN base @@ [outcome |-> "no_runs", result |-> None]
        ELSE IF opened.raised
        THEN base @@ [outcome |-> "exception", result |-> OnException]
        ELSE IF opened.all = <<>>
        THEN base @@ [outcome |-> "nothing_loaded", result |-> OnNothingLoaded]
        ELSE IF closed_read_fails /\ \E i \in 1..Len(opened.all) : opened.all[i].closed
        THEN [base EXCEPT !.all_datasets = opened.all]
                @@ [outcome |-> "exception", result |-> OnException]
        ELSE [base EXCEPT !.all_datasets = opened.all, !.store = TRUE]
                @@ [outcome |-> "assembled", result |-> combined]

\* the record of a call that has not happened
NoLoad ==
    [model_run |-> NoRun, date |-> 0, needed_runs |-> <<>>, all_datasets |-> <<>>,
     store |-> FALSE, openable |-> {}, outcome |-> "none", result |-> None]

\* the inputs of a call: the probed files that exist (at most MaxFiles of them)
FileSets(model_run, date) ==
    {fs \in SUBSET ProbedNames(model_run, date) : Cardinality(fs) <= MaxFiles}

-----------------------------------------------------------------------------
(* WaveDataProcessor.process_station_forecast and the controller above it *)

\* ndbcStations.json
Registry == {"44098"}

\* the station ids a request may carry
StationIds == {"44098", "99999"}

\* a registry that holds every id asked for
StationKnownAlways(station_id) == TRUE

\* _get_station_metadata / OffshoreController._get_station
StationKnown(station_id) == station_id \in Registry

\* utc_time.tz_convert('EST'): five hours behind UTC, in minutes
EstOffset == 0 - 300

\* forecast_time.isoformat(), as its fields <<year, month, day, hour, minute>>:
\* the string is these fields at fixed width, most significant first.
\* Day 0 is 2024-05-01; the day before it is 2024-04-30.
IsoFormat(t) ==
    LET d == t \div 1440
        m == t % 1440
    IN  IF d < 0
        THEN <<2024, 4, 31 + d, m \div 60, m % 60>>
        ELSE <<2024, 5, d + 1, m \div 60, m % 60>>

\* a <= b on two isoformat strings: the comparison of str, field by field
RECURSIVE IsoLeq(_, _)
IsoLeq(a, b) ==
    IF a = <<>> THEN TRUE
    ELSE IF Head(a) # Head(b) THEN Head(a) < Head(b)
    ELSE IsoLeq(Tail(a), Tail(b))

\* a stable sort step on the 'time' string of a forecast
RECURSIVE InsertByIso(_, _)
InsertByIso(x, sorted) ==
    IF sorted = <<>> THEN <<x>>
    ELSE IF IsoLeq(Head(sorted).time, x.time)
         THEN <<Head(sorted)>> \o InsertByIso(x, Tail(sorted))
         ELSE <<x>> \o sorted

\* forecasts.sort(key=lambda x: x['time'])
RECURSIVE SortByIso(_)
SortByIso(all) ==
    IF all = <<>> THEN <<>>
    ELSE InsertByIso(all[Len(all)], SortByIso(SubSeq(all, 1, Len(all) - 1)))

\* forecasts sorted the other way round
ForecastsDescending(full_forecast) ==
    LET sorted == SortByIso([i \in 1..Len(full_forecast) |->
                        [time |-> IsoFormat(full_forecast[i].time + EstOffset)]])
    IN  [i \in 1..Len(sorted) |-> sorted[Len(sorted) + 1 - i]]

\* forecasts: one point per time of the dataset, its time in EST, sorted by
\* the time string
Forecasts(full_forecast) ==
    SortByIso([i \in 1..Len(full_forecast) |->
                  [time |-> IsoFormat(full_forecast[i].time + EstOffset)]])

\* a missing dataset raised to the controller instead of returned as no_data
NoDataRaises(l) ==
    [raised |-> TRUE, status |-> "error", forecasts |-> <<>>, load |-> l]

\* the dict returned when the dataset is None
NoDataResponse(l) ==
    [raised |-> FALSE, status |-> "no_data", forecasts |-> <<>>, load |-> l]

\* process_station_forecast: raises for an unknown station, before any load
ProcessStationForecast(station_id, cycle, files, failing, closed_read_fails) ==
    LET l == Once(LoadForecastDataset(cycle.run, cycle.date, files, failing,
                                      closed_read_fails))
    IN  IF ~StationKnown(station_id)
        THEN [raised |-> TRUE, status |-> "error", forecasts |-> <<>>, load |-> NoLoad]
        ELSE IF l.result = None
        THEN NoDataResponse(l)
        ELSE [raised |-> FALSE, status |-> "ok",
              forecasts |-> Forecasts(l.result), load |-> l]

\* PrefetchService.get_station_forecast hands the processor's forecast to the
\* controller
PrefetchGetStationForecast(station_id, cycle, files, failing, closed_read_fails) ==
    ProcessStationForecast(station_id, cycle, files, failing, closed_read_fails)

\* the controller's answer to an empty or missing forecast
EmptyForecastStatus == 503

\* OffshoreController.get_station_forecast: the HTTP status and the forecast
\* data: what the processor returned or raised (data.status: the dict's status)
ControllerResponse(station_id, data) ==
    IF ~StationKnown(station_id)
    THEN [http |-> 404, station_id |-> station_id, status |-> "none",
          forecasts |-> <<>>]
    ELSE IF data.raised
    THEN [http |-> 500, station_id |-> station_id, status |-> data.status,
          forecasts |-> <<>>]
    ELSE IF data.forecasts = <<>>
    THEN [http |-> EmptyForecastStatus, station_id |-> station_id,
          status |-> data.status, forecasts |-> <<>>]
    ELSE [http |-> 200, station_id |-> station_id, status |-> data.status,
          forecasts |-> data.forecasts]

NoResponse == [http |-> 0, station_id |-> "", status |-> "none", forecasts |-> <<>>]

\* the first two statements of OffshoreController.get_station_forecast:
\* _get_station raises before the prefetch service is called
ControllerForecastData(station_id, cycle, files, failing, closed_read_fails) ==
    IF ~StationKnown(station_id)
    THEN NoDataResponse(NoLoad)
    ELSE PrefetchGetStationForecast(station_id, cycle, files, failing,
                                    closed_read_fails)

\* a cache written by every call, with whatever the call returns
StoreCacheAlways(l) ==
    /\ cached_dataset'   = l.result
    /\ cached_model_run' = l.model_run
    /\ cached_date'      = l.date
    /\ cached_for'       = [date |-> l.date, run |-> l.model_run]

\* the cache after a call
StoreCache(l) ==
    /\ cached_dataset'   = IF l.store THEN l.result ELSE cached_dataset
    /\ cached_model_run' = IF l.store THEN l.model_run ELSE cached_model_run
    /\ cached_date'      = IF l.store THEN l.date ELSE cached_date
    /\ cached_for'       = IF l.store THEN [date |-> l.date, run |-> l.model_run]
                                      ELSE cached_for

-----------------------------------------------------------------------------
(* Actions of the wave path *)

\* the instants the clock is observed at: around each run's publish latency
TimePoints ==
    {RunTime(c.date, c.run) + PublishLatency + d : c \in Cycles, d \in {-1, 0, 1}}

\* the instants at which a run starts and at which it becomes usable
RunInstants ==
    {RunTime(c.date, c.run) + d : c \in Cycles, d \in {0, PublishLatency}}

\* utils.model_time.get_latest_model_run at time t: the latest run that has
\* started, or the one before it
LatestModelRuns(t) ==
    {c \in Cycles : RunTime(c.date, c.run) <= t /\ t - RunTime(c.date, c.run) < 720}

\* the run about to start at time t
UpcomingModelRuns(t) ==
    {c \in Cycles : t < RunTime(c.date, c.run) /\ RunTime(c.date, c.run) - t <= 360}

\* what get_current_model_run may answer a request: a run that has started or,
\* seen with an empty directory only, the run about to start
RequestCycles(files) ==
    LatestModelRuns(now) \cup (IF files = {} THEN UpcomingModelRuns(now) ELSE {})

\* no handler is running and the last response has been delivered
WaveIdle == load.outcome = "none" /\ wave_resp = NoResponse

\* the wave processor and the wind client share no state: a behaviour follows the
\* handlers of one of them
Waves == feature = "waves"
Wind  == feature = "wind"

\* time passes, to the next observed instant
Tick ==
    /\ Waves
    /\ WaveIdle
    /\ \E t \in TimePoints :
        /\ t > now
        /\ \A u \in TimePoints : u > now => t <= u
        /\ now' = t
    /\ UNCHANGED <<cached_dataset, cached_model_run, cached_date, cached_for, preload,
                   load, wave_resp>>
    /\ UNCHANGED <<feature, calc, windVars>>

\* time passes, to the next instant at which a run starts or becomes usable
TickToRun ==
    /\ Waves
    /\ WaveIdle
    /\ \E t \in RunInstants :
        /\ t > now
        /\ \A u \in RunInstants : u > now => t <= u
        /\ now' = t
    /\ UNCHANGED <<cached_dataset, cached_model_run, cached_date, cached_for, preload,
                   load, wave_resp>>
    /\ UNCHANGED <<feature, calc, windVars>>

\* _load_forecast_dataset called while the data directory holds no file
LoadFromEmptyDirectory ==
    /\ Waves
    /\ WaveIdle
    /\ \E cycle \in Cycles :
       \E l \in {LoadForecastDataset(cycle.run, cycle.date, {}, {}, FALSE)} :
            /\ StoreCache(l)
            /\ load' = l
    /\ UNCHANGED <<now, preload, wave_resp>>
    /\ UNCHANGED <<feature, calc, windVars>>

\* GET station forecast: the controller, the prefetch service, the processor
GetStationForecast ==
    /\ Waves
    /\ WaveIdle
    /\ \E station_id \in Registry :
       \E cycle \in Cycles :
       \E files \in {fs \in FileSets(cycle.run, cycle.date) : cycle \in RequestCycles(fs)} :
       \E failing \in SUBSET files :
       \E closed_read_fails \in (IF failing \in {{}, files} THEN {FALSE} ELSE BOOLEAN) :
       \E data \in {PrefetchGetStationForecast(station_id, cycle, files, failing,
                                               closed_read_fails)} :
            /\ StoreCache(data.load)
            /\ load' = data.load
            /\ wave_resp' = ControllerResponse(station_id, data)
    /\ UNCHANGED <<now, preload>>
    /\ UNCHANGED <<feature, calc, windVars>>

\* GET station forecast for an id the registry does not hold
GetUnknownStationForecast ==
    /\ Waves
    /\ WaveIdle
    /\ \E station_id \in StationIds \ Registry :
       \E cycle \in Cycles :
       \E files \in {fs \in FileSets(cycle.run, cycle.date) : cycle \in RequestCycles(fs)} :
       \E data \in {ControllerForecastData(station_id, cycle, files, {}, FALSE)} :
            /\ StoreCache(data.load)
            /\ load' = data.load
            /\ wave_resp' = ControllerResponse(station_id, data)
    /\ UNCHANGED <<now, preload>>
    /\ UNCHANGED <<feature, calc, windVars>>

\* the response is delivered and the handler's locals are gone
WaveReturn ==
    /\ Waves
    /\ ~WaveIdle
    /\ load' = NoLoad
    /\ wave_resp' = NoResponse
    /\ UNCHANGED <<now, cached_dataset, cached_model_run, cached_date, cached_for,
                   preload>>
    /\ UNCHANGED <<feature, calc, windVars>>

\* the executor thread runs no call
NoPreload == [pc |-> "idle", l |-> NoLoad]

\* preload_dataset: _load_forecast_dataset starts on the executor thread. Its
\* cache test, its reads of the clock and of the directory happen here; a call
\* that is a hit, or that assembles nothing, writes nothing and is over.
PreloadStart ==
    /\ Waves
    /\ WaveIdle
    /\ preload.pc = "idle"
    /\ \E cycle \in LatestModelRuns(now) :
       \E files \in FileSets(cycle.run, cycle.date) :
       \E l \in {LoadForecastDataset(cycle.run, cycle.date, files, {}, FALSE)} :
            preload' = IF l.store THEN [pc |-> "assembled", l |-> l] ELSE preload
    /\ UNCHANGED <<now, cached_dataset, cached_model_run, cached_date, cached_for,
                   load, wave_resp>>
    /\ UNCHANGED <<feature, calc, windVars>>

\* the thread's WaveDataProcessor._cached_dataset = combined
PreloadStoreDataset ==
    /\ Waves
    /\ WaveIdle
    /\ preload.pc = "assembled"
    /\ cached_dataset' = preload.l.result
    /\ cached_for' = [date |-> preload.l.date, run |-> preload.l.model_run]
    /\ preload' = [preload EXCEPT !.pc = "stored_dataset"]
    /\ UNCHANGED <<now, cached_model_run, cached_date, load, wave_resp>>
    /\ UNCHANGED <<feature, calc, windVars>>

\* the thread's WaveDataProcessor._cached_model_run = model_run, and its return
PreloadStoreModelRun ==
    /\ Waves
    /\ WaveIdle
    /\ preload.pc = "stored_dataset"
    /\ cached_model_run' = preload.l.model_run
    /\ cached_date' = preload.l.date
    /\ preload' = NoPreload
    /\ UNCHANGED <<now, cached_dataset, cached_for, load, wave_resp>>
    /\ UNCHANGED <<feature, calc, windVars>>

InitWave ==
    /\ now = 0
    /\ cached_dataset = None
    /\ cached_model_run = NoRun
    /\ cached_date = 0
    /\ cached_for = [date |-> 0, run |-> NoRun]
    /\ preload = NoPreload
    /\ load = NoLoad
    /\ wave_resp = NoResponse

-----------------------------------------------------------------------------
(* GFSFileStorage *)

\* base_dir, as str(file_path) shows it
BaseDir == "downloaded_data/gfs/"

\* run_date.strftime('%Y%m%d'): day d is 2024-05-(d+1)
DateStr(d) == "202405" \o Zfill2(ToString(d + 1))

\* a name that leaves the cycle hour out
GetFilePathNoCycle(station_id, run, forecast_hour) ==
    BaseDir \o "gfs_wind_" \o station_id \o "_" \o DateStr(run.run_date) \o "_f"
        \o Zfill3(ToString(forecast_hour)) \o ".grib2"

\* get_file_path
GetFilePath(station_id, run, forecast_hour) ==
    BaseDir \o "gfs_wind_" \o station_id \o "_" \o DateStr(run.run_date) \o "_"
        \o Zfill2(ToString(run.cycle_hour)) \o "z_f"
        \o Zfill3(ToString(forecast_hour)) \o ".grib2"

\* a validity test that never finds the file
IsFileValidNever(d, file_path) == FALSE

\* is_file_valid: the file exists
IsFileValid(d, file_path) == file_path \in DOMAIN d

\* `needle in haystack` on two str
Contains(needle, haystack) ==
    \E i \in 1..(Len(haystack) - Len(needle) + 1) :
        SubSeq(haystack, i, i + Len(needle) - 1) = needle

\* str.endswith
EndsWith(s, suffix) ==
    Len(s) >= Len(suffix) /\ SubSeq(s, Len(s) - Len(suffix) + 1, Len(s)) = suffix

\* base_dir.glob("*.grib2")
GlobGrib2(d) == {n \in DOMAIN d : EndsWith(n, ".grib2")}

\* current_pattern of cleanup_old_files
CurrentPattern(current_run) ==
    "*_" \o DateStr(current_run.run_date) \o "_"
        \o Zfill2(ToString(current_run.cycle_hour)) \o "z_*.grib2"

\* a test that keeps every file of the current run's date
KeepsSameDate(current_run, file_path) ==
    Contains("_" \o DateStr(current_run.run_date) \o "_", file_path)

\* the test that keeps a file: current_pattern in str(file_path)
KeepsFile(current_run, file_path) ==
    Contains(CurrentPattern(current_run), file_path)

\* cleanup_old_files: unlink every *.grib2 the test does not keep
CleanupOldFiles(d, current_run) ==
    LET deleted == {n \in GlobGrib2(d) : ~KeepsFile(current_run, n)}
    IN  [n \in (DOMAIN d) \ deleted |-> d[n]]

\* save_file. write: "ok"; "no_file" (mkdir or open raised); "partial" (f.write
\* raised after open created or truncated the file)
SaveFile(d, file_path, content, write) ==
    IF write = "ok"
    THEN [ok |-> TRUE, dir |-> (file_path :> content) @@ d]
    ELSE IF write = "partial"
    THEN [ok |-> FALSE, dir |-> (file_path :> "partial") @@ d]
    ELSE [ok |-> FALSE, dir |-> d]

-----------------------------------------------------------------------------
(* GFSWindClient *)

\* the absent value of model_run
NoModelRun == [run_date |-> -1, cycle_hour |-> -1]

\* the cycle hours of the runs the client is given: two of the four
WindCycleHours == {0, 12}

\* ModelRun values a caller may set
WindRuns == [run_date : Dates, cycle_hour : WindCycleHours]

\* the absent value of an Optional[Path]
NoPath == ""

\* len(content) < 100
MinPayload == 100

\* what the network gives one GET
Responses ==
    [kind : {"timeout", "error"}, status : {0}, size : {0}, write : {"none"}]
    \cup [kind : {"response"}, status : {404, 500}, size : {0}, write : {"none"}]
    \cup [kind : {"response"}, status : {200}, size : {MinPayload - 1},
          write : {"none"}]
    \cup [kind : {"response"}, status : {200}, size : {MinPayload, MinPayload + 1},
          write : {"ok", "no_file", "partial"}]

\* a download that accepts a 200 of any size
DownloadAnySize(d, file_path, r) ==
    IF r.kind # "response" \/ r.status # 200 THEN [result |-> NoPath, dir |-> d]
    ELSE LET saved == SaveFile(d, file_path, "complete",
                               IF r.write = "none" THEN "ok" ELSE r.write)
         IN  IF saved.ok
             THEN [result |-> file_path, dir |-> saved.dir]
             ELSE [result |-> NoPath, dir |-> saved.dir]

\* _get_grib_file after a cache miss: the answer to the GET and the save
Download(d, file_path, r) ==
    IF r.kind = "timeout" THEN [result |-> NoPath, dir |-> d]
    ELSE IF r.kind = "error" THEN [result |-> NoPath, dir |-> d]
    ELSE IF r.status = 404 THEN [result |-> NoPath, dir |-> d]
    ELSE IF r.status # 200 THEN [result |-> NoPath, dir |-> d]
    ELSE IF r.size < MinPayload THEN [result |-> NoPath, dir |-> d]
    ELSE LET saved == SaveFile(d, file_path, "complete", r.write)
         IN  IF saved.ok
             THEN [result |-> file_path, dir |-> saved.dir]
             ELSE [result |-> NoPath, dir |-> saved.dir]

\* range(0, 169, 3), the i-th hour
WindHour(i) == 3 * (i - 1)

\* the run time of a ModelRun
WindRunTime(run) == run.run_date * 1440 + run.cycle_hour * 60

\* _process_grib_data and the point built from it: valid_time is the file's own
WindPoint(run, hour) ==
    [time |-> WindRunTime(run) + hour * 60, run |-> run, hour |-> hour]

\* f"{run_date:%Y%m%d}_{cycle_hour:02d}Z"
ModelRunLabel(run) ==
    DateStr(run.run_date) \o "_" \o Zfill2(ToString(run.cycle_hour)) \o "Z"

\* no answer to a GET
NoAnswer == [kind |-> "none", status |-> 0, size |-> 0, write |-> "none"]

\* op.kind: "hit" (_get_grib_file returned the cached path), "request" (cache miss,
\* the GET is issued), "download" (the GET was answered and _get_grib_file
\* returned), "cleanup" (cleanup_old_files ran); before: the directory it found
NoOp ==
    [kind |-> "none", path |-> NoPath, run |-> NoModelRun, requested |-> FALSE,
     response |-> NoAnswer, result |-> NoPath, before |-> <<>>]

\* log: what each hour of the loop came to, in loop order (the code counts them
\* in total_hours and failed_hours)
NoWind ==
    [pc |-> "idle", station |-> "", i |-> 0, file_path |-> NoPath,
     url_run |-> NoModelRun, forecasts |-> <<>>, log |-> <<>>]

NoWindResponse == [http |-> 0, model_run |-> "", forecasts |-> <<>>, log |-> <<>>]

\* the HTTPException raised when there is no model run or no forecast
Unavailable == [http |-> 503, model_run |-> "", forecasts |-> <<>>, log |-> <<>>]

\* one hour of the loop: whether its file was obtained and whether a point was
\* made of it
HourLog(hour, grib_path, process_ok) ==
    [hour |-> hour, acquired |-> grib_path # NoPath,
     processed |-> grib_path # NoPath /\ process_ok]

\* a loop whose request fails as a whole when one of its hours failed
AfterHourAllOrNothing(forecasts, entry) ==
    IF wind.i < MaxWindHours
    THEN /\ wind' = [wind EXCEPT !.pc = "hour", !.i = wind.i + 1,
                                 !.file_path = NoPath, !.url_run = NoModelRun,
                                 !.forecasts = forecasts,
                                 !.log = Append(wind.log, entry)]
         /\ UNCHANGED wind_resp
    ELSE /\ wind' = NoWind
         /\ wind_resp' =
                IF Len(forecasts) < wind.i
                THEN [Unavailable EXCEPT !.log = Append(wind.log, entry)]
                ELSE [http |-> 200, model_run |-> ModelRunLabel(wind_model_run),
                      forecasts |-> SortByTime(forecasts),
                      log |-> Append(wind.log, entry)]

\* a loop that tries an hour again until it gives a point
AfterHourRetry(forecasts, entry) ==
    IF ~entry.processed
    THEN /\ wind' = [wind EXCEPT !.pc = "hour", !.file_path = NoPath,
                                 !.url_run = NoModelRun]
         /\ UNCHANGED wind_resp
    ELSE IF wind.i < MaxWindHours
    THEN /\ wind' = [wind EXCEPT !.pc = "hour", !.i = wind.i + 1,
                                 !.file_path = NoPath, !.url_run = NoModelRun,
                                 !.forecasts = forecasts,
                                 !.log = Append(wind.log, entry)]
         /\ UNCHANGED wind_resp
    ELSE /\ wind' = NoWind
         /\ wind_resp' = [http |-> 200, model_run |-> ModelRunLabel(wind_model_run),
                          forecasts |-> SortByTime(forecasts),
                          log |-> Append(wind.log, entry)]

\* after one hour: the next hour, or the response when the loop is over
AfterHour(forecasts, entry) ==
    IF wind.i < MaxWindHours
    THEN /\ wind' = [wind EXCEPT !.pc = "hour", !.i = wind.i + 1,
                                 !.file_path = NoPath, !.url_run = NoModelRun,
                                 !.forecasts = forecasts,
                                 !.log = Append(wind.log, entry)]
         /\ UNCHANGED wind_resp
    ELSE /\ wind' = NoWind
         /\ wind_resp' =
                IF forecasts = <<>>
                THEN [Unavailable EXCEPT !.log = Append(wind.log, entry)]
                ELSE [http |-> 200, model_run |-> ModelRunLabel(wind_model_run),
                      forecasts |-> SortByTime(forecasts),
                      log |-> Append(wind.log, entry)]

\* the forecasts after one hour's file was, or was not, obtained and processed
WithHour(grib_path, run, process_ok) ==
    IF grib_path # NoPath /\ process_ok
    THEN Append(wind.forecasts, WindPoint(run, WindHour(wind.i)))
    ELSE wind.forecasts

-----------------------------------------------------------------------------
(* Actions of the wind path *)

WindIdle == wind.pc = "idle" /\ wind_resp = NoWindResponse

\* update_model_run: set the run, then clean the directory. It runs on the event
\* loop: between two requests, or while a request awaits a GET. A run is
\* superseded by a newer one, or set again.
UpdateModelRun ==
    /\ Wind
    /\ wind_resp = NoWindResponse
    /\ wind.pc # "hour"
    /\ \E r \in WindRuns :
        /\ wind_model_run # NoModelRun => WindRunTime(r) >= WindRunTime(wind_model_run)
        /\ wind_model_run' = r
        /\ dir' = CleanupOldFiles(dir, r)
        /\ op' = [NoOp EXCEPT !.kind = "cleanup", !.run = r, !.before = dir]
    /\ UNCHANGED <<wind, wind_resp>>
    /\ UNCHANGED <<feature, calc, waveVars>>

\* get_station_wind_forecast up to its loop
WindRequest ==
    /\ Wind
    /\ WindIdle
    /\ \E station_id \in Registry :
        IF wind_model_run = NoModelRun
        THEN /\ wind_resp' = Unavailable
             /\ UNCHANGED wind
        ELSE /\ wind' = [NoWind EXCEPT !.pc = "hour", !.station = station_id, !.i = 1]
             /\ UNCHANGED wind_resp
    /\ op' = NoOp
    /\ UNCHANGED <<wind_model_run, dir>>
    /\ UNCHANGED <<feature, calc, waveVars>>

\* one hour of the loop, up to the await of the GET: the url, the path, the
\* cache test; on a hit the file is processed at once
WindHourStart ==
    /\ Wind
    /\ wind.pc = "hour"
    /\ LET file_path == GetFilePath(wind.station, wind_model_run, WindHour(wind.i))
       IN  IF IsFileValid(dir, file_path)
           THEN /\ op' = [NoOp EXCEPT !.kind = "hit", !.path = file_path,
                                      !.run = wind_model_run,
                                      !.result = file_path, !.before = dir]
                /\ \E process_ok \in BOOLEAN :
                      AfterHour(WithHour(file_path, wind_model_run, process_ok),
                                HourLog(WindHour(wind.i), file_path, process_ok))
           ELSE /\ op' = [NoOp EXCEPT !.kind = "request", !.path = file_path,
                                      !.run = wind_model_run, !.requested = TRUE,
                                      !.before = dir]
                /\ wind' = [wind EXCEPT !.pc = "download", !.file_path = file_path,
                                        !.url_run = wind_model_run]
                /\ UNCHANGED wind_resp
    /\ UNCHANGED <<wind_model_run, dir>>
    /\ UNCHANGED <<feature, calc, waveVars>>

\* the GET is answered (or times out, or fails): the rest of _get_grib_file, then
\* the processing of the file
WindDownload ==
    /\ Wind
    /\ wind.pc = "download"
    /\ \E r \in Responses :
       \E got \in {Download(dir, wind.file_path, r)} :
       \E process_ok \in BOOLEAN :
            /\ dir' = got.dir
            /\ op' = [NoOp EXCEPT !.kind = "download", !.path = wind.file_path,
                                  !.run = wind.url_run, !.requested = TRUE,
                                  !.response = r, !.result = got.result,
                                  !.before = dir]
            /\ AfterHour(WithHour(got.result, wind.url_run, process_ok),
                         HourLog(WindHour(wind.i), got.result, process_ok))
    /\ UNCHANGED wind_model_run
    /\ UNCHANGED <<feature, calc, waveVars>>

\* the response is delivered
WindReturn ==
    /\ Wind
    /\ wind_resp # NoWindResponse
    /\ wind_resp' = NoWindResponse
    /\ op' = NoOp
    /\ UNCHANGED <<wind_model_run, dir, wind>>
    /\ UNCHANGED <<feature, calc, waveVars>>

\* the names the storage directory may hold when the client is constructed
StoredNames ==
    {GetFilePath(s, r, WindHour(i)) : s \in Registry, r \in WindRuns,
                                      i \in 1..MaxWindHours}
    \cup {BaseDir \o "x*_20240501_00z_*.grib2", BaseDir \o "notes.txt"}

InitWind ==
    /\ wind_model_run = NoModelRun
    /\ \E names \in SUBSET StoredNames :
        /\ Cardinality(names) <= MaxStored
        /\ dir = [n \in names |-> "complete"]
    /\ wind = NoWind
    /\ op = NoOp
    /\ wind_resp = NoWindResponse

-----------------------------------------------------------------------------
(* The grid lookups: process_station_forecast and _process_grib_data *)

\* an axis of a grid holds at most MaxAxis coordinates
MaxAxis == 3

\* abs()
Abs(x) == IF x < 0 THEN 0 - x ELSE x

\* abs(axis - x): the distance of each coordinate of the axis from x
Distances(axis, x) == [i \in 1..Len(axis) |-> Abs(axis[i] - x)]

\* argmin as a scan: a later index replaces the best only if strictly less
RECURSIVE ArgMinScan(_, _, _)
ArgMinScan(d, i, best) ==
    IF i > Len(d) THEN best
    ELSE ArgMinScan(d, i + 1, IF d[i] < d[best] THEN i ELSE best)

\* an argmin that returns the last index of the least value
ArgMinLast(d) ==
    CHOOSE i \in 1..Len(d) :
        /\ \A j \in 1..Len(d) : d[i] <= d[j]
        /\ \A j \in (i + 1)..Len(d) : d[i] < d[j]

\* numpy argmin: the first index of the least value (indices from 1 here)
ArgMin(d) == ArgMinScan(d, 2, 1)

\* if lon < 0: lon = lon + 360
To360(lon) == IF lon < 0 THEN lon + 360 ELSE lon

\* process_station_forecast: lat_idx and lon_idx; lon is the longitude searched
WaveNearest(lat, lon, latitude, longitude) ==
    [lat_idx |-> ArgMin(Distances(latitude, lat)),
     lon     |-> To360(lon),
     lon_idx |-> ArgMin(Distances(longitude, To360(lon)))]

\* get_station_wind_forecast and _process_grib_data: the url is built from the
\* longitude in 0..360 (url_lon); the lookup is handed the station's own
\* longitude (lon)
WindNearest(lat, lon, latitude, longitude) ==
    [url_lon |-> To360(lon),
     lat_idx |-> ArgMin(Distances(latitude, lat)),
     lon     |-> lon,
     lon_idx |-> ArgMin(Distances(longitude, lon))]

-----------------------------------------------------------------------------
(* GFSWindClient._calculate_wind *)

\* round(x ** 0.5, 2) for an integer x, in hundredths
SqrtHundredths(x) ==
    CHOOSE r \in 0..(100 * x + 1) :
        /\ r = 0 \/ (2 * r - 1) * (2 * r - 1) <= 40000 * x
        /\ 40000 * x < (2 * r + 1) * (2 * r + 1)

\* a bool used as a number
BoolNum(b) == IF b THEN 1 ELSE 0

\* _calculate_wind: speed in hundredths, direction in degrees.
\* (180 / 3.14159) * b * 3.14159 is 180 * b
CalculateWind(u, v) ==
    [speed     |-> SqrtHundredths(u * u + v * v),
     direction |-> (270 - 180 * BoolNum(v > 0) + 180 * BoolNum(v < 0)) % 360]

-----------------------------------------------------------------------------
(* One forecast point of process_station_forecast *)

\* range(3): the swell components
Ranks == 3

\* an empty dict
EmptyDict == <<>>

\* a value of point_data at one time: NaN, or the number v / den
NaN == [nan |-> TRUE, v |-> 0, den |-> 1]

\* pd.isna
IsNa(x) == x.nan

\* round(val, 1), in tenths: the nearest tenth, ties go to the even digit
Round1(x) ==
    LET q == (10 * x.v) \div x.den
        r == (10 * x.v) % x.den
    IN  IF 2 * r < x.den THEN q
        ELSE IF 2 * r > x.den THEN q + 1
        ELSE IF q % 2 = 0 THEN q ELSE q + 1

\* the wind dict: both fields or none
WindGroup(point_data) ==
    IF /\ "wind_speed" \in DOMAIN point_data
       /\ "wind_direction" \in DOMAIN point_data
       /\ ~IsNa(point_data["wind_speed"])
       /\ ~IsNa(point_data["wind_direction"])
    THEN [speed     |-> Round1(point_data["wind_speed"]),
          direction |-> Round1(point_data["wind_direction"])]
    ELSE EmptyDict

\* primary_wave_vars and wind_wave_vars: source name, key in the wave dict
PrimaryWaveVars ==
    {<<"wave_height", "height">>, <<"wave_period", "period">>,
     <<"wave_direction", "direction">>}

WindWaveVars ==
    {<<"wind_wave_height", "wind_height">>, <<"wind_wave_period", "wind_period">>,
     <<"wind_wave_direction", "wind_direction">>}

\* the dict filled by one loop over such a mapping: a key for every source that
\* is there and is not NaN
Collected(mapping, point_data) ==
    LET got == {m \in mapping : m[1] \in DOMAIN point_data /\ ~IsNa(point_data[m[1]])}
    IN  [k \in {m[2] : m \in got} |->
            Round1(point_data[(CHOOSE m \in got : m[2] = k)[1]])]

\* wind wave fields added one by one, as the primary ones are
WindWaveDataPartial(point_data) == Collected(WindWaveVars, point_data)

\* wind_wave_data as it is merged into wave: all three fields or nothing
WindWaveData(point_data) ==
    IF \A m \in WindWaveVars : m[1] \in DOMAIN point_data
    THEN LET wind_wave_data == Collected(WindWaveVars, point_data)
         IN  IF Cardinality(DOMAIN wind_wave_data) = Cardinality(WindWaveVars)
             THEN wind_wave_data
             ELSE EmptyDict
    ELSE EmptyDict

\* the wave dict: the primary fields, then wave.update(wind_wave_data)
WaveGroup(point_data) ==
    WindWaveData(point_data) @@ Collected(PrimaryWaveVars, point_data)

\* the swell components from rank j on
RECURSIVE SwellFrom(_, _)
SwellFrom(point_data, j) ==
    IF j > Ranks THEN <<>>
    ELSE LET height    == point_data["swell_height"][j]
             period    == point_data["swell_period"][j]
             direction == point_data["swell_direction"][j]
         IN  (IF ~(IsNa(height) \/ IsNa(period) \/ IsNa(direction))
              THEN <<[height    |-> Round1(height),
                      period    |-> Round1(period),
                      direction |-> Round1(direction)]>>
              ELSE <<>>)
             \o SwellFrom(point_data, j + 1)

\* a swell list in which an incomplete rank ends the list
RECURSIVE SwellUntilGap(_, _)
SwellUntilGap(point_data, j) ==
    IF j > Ranks THEN <<>>
    ELSE LET height    == point_data["swell_height"][j]
             period    == point_data["swell_period"][j]
             direction == point_data["swell_direction"][j]
         IN  IF ~(IsNa(height) \/ IsNa(period) \/ IsNa(direction))
             THEN <<[height    |-> Round1(height),
                     period    |-> Round1(period),
                     direction |-> Round1(direction)]>>
                  \o SwellUntilGap(point_data, j + 1)
             ELSE <<>>

\* a swell list cut at its first incomplete rank
SwellSeqUntilGap(point_data) ==
    IF {"swell_height", "swell_period", "swell_direction"} \subseteq DOMAIN point_data
    THEN SwellUntilGap(point_data, 1)
    ELSE <<>>

\* the swell list of one time: the complete ranks, when all three arrays exist
SwellSeq(point_data) ==
    IF {"swell_height", "swell_period", "swell_direction"} \subseteq DOMAIN point_data
    THEN SwellFrom(point_data, 1)
    ELSE <<>>

\* the forecast dict of one time, without its time
ForecastPoint(point_data) ==
    [wind  |-> WindGroup(point_data),
     wave  |-> WaveGroup(point_data),
     swell |-> SwellSeq(point_data)]

\* variables: the dataset's name of a variable, its output name and the factor
\* of its unit conversion as a fraction (2.237 = 2237 / 1000)
Variables ==
    [ws    |-> [name |-> "wind_speed", num |-> 2237, den |-> 1000],
     wdir  |-> [name |-> "wind_direction", num |-> 1, den |-> 1],
     swh   |-> [name |-> "wave_height", num |-> 328084, den |-> 100000],
     shww  |-> [name |-> "wind_wave_height", num |-> 328084, den |-> 100000],
     shts  |-> [name |-> "swell_height", num |-> 328084, den |-> 100000],
     perpw |-> [name |-> "wave_period", num |-> 1, den |-> 1],
     mpww  |-> [name |-> "wind_wave_period", num |-> 1, den |-> 1],
     mpts  |-> [name |-> "swell_period", num |-> 1, den |-> 1],
     dirpw |-> [name |-> "wave_direction", num |-> 1, den |-> 1],
     wvdir |-> [name |-> "wind_wave_direction", num |-> 1, den |-> 1],
     swdir |-> [name |-> "swell_direction", num |-> 1, den |-> 1]]

\* a conversion that leaves the raw value as it is
ConvertNone(var, x) == x

\* convert(data): the raw value times the factor of its variable; NaN stays NaN
Convert(var, x) ==
    [nan |-> x.nan, v |-> x.v * Variables[var].num, den |-> x.den * Variables[var].den]

\* point_data at one time: every variable the dataset holds, under its output
\* name, converted (data: the dataset's values of that time at the grid point)
PointData(data) ==
    LET held == DOMAIN data \cap DOMAIN Variables
    IN  [name \in {Variables[var].name : var \in held} |->
            LET var == CHOOSE w \in held : Variables[w].name = name
            IN  Convert(var, data[var])]

\* forecasts with their wind, wave and swell: one per time of the dataset, then
\* forecasts.sort on the time string
StationForecasts(full_forecast) ==
    SortByIso([i \in 1..Len(full_forecast) |->
                  [time |-> IsoFormat(full_forecast[i].time + EstOffset)]
                      @@ ForecastPoint(PointData(full_forecast[i].data))])

-----------------------------------------------------------------------------
(* The computations, each called on arguments of its own *)

\* the scalar variables of point_data and the numbers they hold when not NaN,
\* in hundredths
ScalarValues ==
    [wind_speed |-> 1234, wind_direction |-> 27013,
     wave_height |-> 328, wave_period |-> 812, wave_direction |-> 9004,
     wind_wave_height |-> 164, wind_wave_period |-> 407, wind_wave_direction |-> 18096]

\* the swell variables: the number of rank j is the base plus 100 * j, in
\* hundredths
SwellBases ==
    [swell_height |-> 21, swell_period |-> 1033, swell_direction |-> 20048]

\* point_data with any of the scalar variables absent, NaN or a number
ScalarPointData ==
    UNION {[present -> {"nan", "value"}] : present \in SUBSET DOMAIN ScalarValues}

\* point_data of that choice
ScalarPoint(choice) ==
    [var \in DOMAIN choice |->
        IF choice[var] = "nan" THEN NaN ELSE [nan |-> FALSE, v |-> ScalarValues[var], den |-> 100]]

\* point_data with any of the swell variables absent, and any rank of the others
\* NaN or a number
SwellPointData ==
    UNION {[present -> [1..Ranks -> {"nan", "value"}]] :
              present \in SUBSET DOMAIN SwellBases}

SwellPoint(choice) ==
    [var \in DOMAIN choice |->
        [j \in 1..Ranks |->
            IF choice[var][j] = "nan" THEN NaN
            ELSE [nan |-> FALSE, v |-> SwellBases[var] + 100 * j, den |-> 100]]]

\* the axes of a grid over some coordinates
Axes(coords) == UNION {[1..n -> coords] : n \in 1..MaxAxis}

\* latitudes, and longitudes of the provider's 0..360 axis
GridLatitudes == {41, 42, 43}
GridLongitudes == {1, 289, 290, 291}

\* station coordinates: longitudes in the signed convention
StationLatitudes == {41, 42, 43}
StationLongitudes == {0 - 71, 0 - 70, 0 - 69, 1}

\* lookups in which one axis varies and the other is the whole axis
Lookups ==
    [lat : StationLatitudes, lon : {0 - 70}, latitude : Axes(GridLatitudes),
     longitude : {<<289, 290, 291>>}]
    \cup
    [lat : {42}, lon : StationLongitudes, latitude : {<<43, 42, 41>>},
     longitude : Axes(GridLongitudes)]

\* wind components, in m/s
WindComponents == (0 - 2)..2

\* raw significant wave heights, in hundredths of a metre
RawHeights == {100, 120, 150}

\* the times of hours 0, 3 and 6 of the 12z run of day 0
HourTimes == <<720, 900, 1080>>

\* datasets of these times whose swh is, at each time, NaN or a raw height
HeightDatasets ==
    {[i \in 1..Len(HourTimes) |-> [time |-> HourTimes[i], data |-> [swh |-> cell[i]]]] :
        cell \in [1..Len(HourTimes) ->
                    {NaN} \cup {[nan |-> FALSE, v |-> h, den |-> 100] : h \in RawHeights}]}

NoCalc == [kind |-> "none", done |-> TRUE, in |-> <<>>, out |-> <<>>]

\* the arguments of get_file_path: station ids (one a prefix of another, one
\* holding the separator), the cycle hours of a day, forecast hours of one, two
\* and three digits up to the last one
PathStations == {"44098", "4409", "44098_1"}

PathCycleHours == {0, 6, 12, 18}

PathForecastHours == {0, 3, 30, 168}

PathTuples ==
    [station_id : PathStations, run_date : Dates, cycle_hour : PathCycleHours,
     forecast_hour : PathForecastHours]

\* get_file_path for one tuple of arguments
PathOf(t) ==
    GetFilePath(t.station_id, [run_date |-> t.run_date, cycle_hour |-> t.cycle_hour],
                t.forecast_hour)

InitCalc ==
    calc \in
        [kind : {"point"}, done : {FALSE}, out : {<<>>},
         in : {ScalarPoint(c) : c \in ScalarPointData}
                \cup {SwellPoint(c) : c \in SwellPointData}]
        \cup [kind : {"wave_nearest", "wind_nearest"}, done : {FALSE}, out : {<<>>},
              in : Lookups]
        \cup [kind : {"calculate_wind"}, done : {FALSE}, out : {<<>>},
              in : [u : WindComponents, v : WindComponents]]
        \cup [kind : {"forecasts"}, done : {FALSE}, out : {<<>>}, in : HeightDatasets]
        \cup [kind : {"paths"}, done : {FALSE}, out : {<<>>},
              in : [a : PathTuples, b : PathTuples]]

Calc == feature = "calc"

\* one time of the loop of process_station_forecast
ExtractPoint ==
    /\ Calc
    /\ calc.kind = "point" /\ ~calc.done
    /\ calc' = [calc EXCEPT !.done = TRUE, !.out = ForecastPoint(calc.in)]
    /\ UNCHANGED <<feature, waveVars, windVars>>

\* the grid lookup of process_station_forecast
WaveLookup ==
    /\ Calc
    /\ calc.kind = "wave_nearest" /\ ~calc.done
    /\ calc' = [calc EXCEPT !.done = TRUE,
                  !.out = WaveNearest(calc.in.lat, calc.in.lon,
                                      calc.in.latitude, calc.in.longitude)]
    /\ UNCHANGED <<feature, waveVars, windVars>>

\* the grid lookup of the wind client
WindLookup ==
    /\ Calc
    /\ calc.kind = "wind_nearest" /\ ~calc.done
    /\ calc' = [calc EXCEPT !.done = TRUE,
                  !.out = WindNearest(calc.in.lat, calc.in.lon,
                                      calc.in.latitude, calc.in.longitude)]
    /\ UNCHANGED <<feature, waveVars, windVars>>

\* _calculate_wind
CalculateWindCall ==
    /\ Calc
    /\ calc.kind = "calculate_wind" /\ ~calc.done
    /\ calc' = [calc EXCEPT !.done = TRUE, !.out = CalculateWind(calc.in.u, calc.in.v)]
    /\ UNCHANGED <<feature, waveVars, windVars>>

\* process_station_forecast from the dataset on: point_data and the forecasts
ProcessDataset ==
    /\ Calc
    /\ calc.kind = "forecasts" /\ ~calc.done
    /\ calc' = [calc EXCEPT !.done = TRUE, !.out = StationForecasts(calc.in)]
    /\ UNCHANGED <<feature, waveVars, windVars>>

\* get_file_path called for two tuples of arguments
GetFilePaths ==
    /\ Calc
    /\ calc.kind = "paths" /\ ~calc.done
    /\ calc' = [calc EXCEPT !.done = TRUE,
                            !.out = [a |-> PathOf(calc.in.a), b |-> PathOf(calc.in.b)]]
    /\ UNCHANGED <<feature, waveVars, windVars>>

-----------------------------------------------------------------------------
(* Specifications *)

\* the resolver, observed at every instant around the publish latency
InitResolver ==
    feature = "waves" /\ InitWave /\ InitWind /\ DOMAIN dir = {} /\ calc = NoCalc

NextResolver == Tick \/ LoadFromEmptyDirectory \/ WaveReturn

SpecResolver == InitResolver /\ [][NextResolver]_vars

\* the wave path: requests, the dataset cache, the clock
InitWaves ==
    feature = "waves" /\ InitWave /\ InitWind /\ DOMAIN dir = {} /\ calc = NoCalc

NextWaves == TickToRun \/ GetStationForecast \/ GetUnknownStationForecast \/ WaveReturn

SpecWave == InitWaves /\ [][NextWaves]_vars

\* the wind path: the model run, the storage directory, one request
InitWinds == feature = "wind" /\ InitWave /\ InitWind /\ calc = NoCalc

NextWind == UpdateModelRun \/ WindRequest \/ WindHourStart \/ WindDownload \/ WindReturn

SpecWind == InitWinds /\ [][NextWind]_vars

\* the instants of day 0 at which a run becomes usable
UsableInstants == {RunTime(0, run) + PublishLatency : run \in ModelRuns}

\* the wave path with preload_dataset on the executor thread, in a process
\* started at one of these instants and followed while the clock stays there
InitPreload ==
    /\ feature = "waves"
    /\ now \in UsableInstants
    /\ cached_dataset = None
    /\ cached_model_run = NoRun
    /\ cached_date = 0
    /\ cached_for = [date |-> 0, run |-> NoRun]
    /\ preload = NoPreload
    /\ load = NoLoad
    /\ wave_resp = NoResponse
    /\ InitWind
    /\ DOMAIN dir = {}
    /\ calc = NoCalc

NextPreload ==
    \/ PreloadStart
    \/ PreloadStoreDataset
    \/ PreloadStoreModelRun
    \/ GetStationForecast
    \/ WaveReturn

SpecPreload == InitPreload /\ [][NextPreload]_vars

\* the computations on their own
InitCalcs == feature = "calc" /\ InitWave /\ InitWind /\ DOMAIN dir = {} /\ InitCalc

NextCalc ==
    ExtractPoint \/ WaveLookup \/ WindLookup \/ CalculateWindCall \/ ProcessDataset
        \/ GetFilePaths

SpecCalc == InitCalcs /\ [][NextCalc]_vars

\* both paths
Init == InitWaves \/ InitWinds

Next == NextWaves \/ NextWind

Spec == Init /\ [][Next]_vars

\* both paths, with the event loop resuming a request whose await is over: an
\* hour that can start does start, and a GET is answered, fails or times out
SpecFair ==
    Init /\ [][Next]_vars /\ WF_vars(WindHourStart) /\ WF_vars(WindDownload)

-----------------------------------------------------------------------------
(* GFSFileStorage.cleanup_old_files *)

\* C1: after cleanup_old_files(current_run) every *.grib2 file the directory held
\* whose name carries current_run's date and cycle hour is still there, with the
\* content it had.
C1_CleanupKeepsCurrentRun ==
    op.kind = "cleanup" =>
        \A n \in DOMAIN op.before :
            (/\ EndsWith(n, ".grib2")
             /\ Contains("_" \o DateStr(op.run.run_date) \o "_"
                            \o Zfill2(ToString(op.run.cycle_hour)) \o "z_", n))
            => (n \in DOMAIN dir /\ dir[n] = op.before[n])

-----------------------------------------------------------------------------
(* The resolver *)

\* C2: a run, current or previous, is in needed_runs only if now is at least its
\* run time plus 3h30m; at run time + 3h29m it is left out, at + 3h31m it is in.
C2_LatencyGate ==
    load.outcome \notin {"none", "hit"} =>
        LET needed     == {load.needed_runs[i] : i \in 1..Len(load.needed_runs)}
            candidates == {[date |-> load.date, run |-> load.model_run],
                           PrevRun(load.model_run, load.date)}
        IN  /\ needed \subseteq candidates
            /\ \A c \in needed : now >= RunTime(c.date, c.run) + (3 * 60 + 30)
            /\ \A c \in candidates :
                /\ now = RunTime(c.date, c.run) + (3 * 60 + 29) => c \notin needed
                /\ now = RunTime(c.date, c.run) + (3 * 60 + 31) => c \in needed

\* a call one minute before the current run's latency has elapsed: the current
\* run is left out and the previous run is in
C2_Witness ==
    /\ load.outcome \notin {"none", "hit"}
    /\ now = RunTime(load.date, load.model_run) + (3 * 60 + 29)
    /\ load.needed_runs = <<PrevRun(load.model_run, load.date)>>

-----------------------------------------------------------------------------
(* Requests that produce no data *)

\* C3: a request for a known station with no usable run, or with nothing loaded
\* and no cached dataset, is answered 503 with status no_data and no forecasts;
\* a wind request with no model run or no forecast hour is answered 503. Neither
\* is answered 500.
C3_NoDataIsUnavailable ==
    /\ (/\ wave_resp # NoResponse
        /\ load.outcome \in {"no_runs", "nothing_loaded", "exception"}
        /\ load.all_datasets = <<>>
        /\ cached_dataset = None)
       => (/\ wave_resp.http = 503
           /\ wave_resp.status = "no_data"
           /\ wave_resp.forecasts = <<>>)
    /\ wind_resp # NoWindResponse
       => (/\ wind_resp.http \in {200, 503}
           /\ wind_resp.http = 503 <=> wind_resp.forecasts = <<>>)

\* a wave request made when no run has passed the latency check, answered 503
C3_Witness ==
    /\ wave_resp # NoResponse
    /\ load.outcome = "no_runs"
    /\ wave_resp.http = 503

-----------------------------------------------------------------------------
(* Assembly *)

\* C4: the times of an assembled dataset, returned or cached, are strictly
\* ascending.
C4_StrictlyAscending ==
    /\ load.outcome = "assembled" =>
        \A i \in 1..(Len(load.result) - 1) : load.result[i].time < load.result[i + 1].time
    /\ \A i \in 1..(Len(cached_dataset) - 1) :
            cached_dataset[i].time < cached_dataset[i + 1].time

\* an assembly where two loaded slices have the same time and one was dropped
C4_Witness ==
    /\ load.outcome = "assembled"
    /\ Len(load.result) < Len(load.all_datasets)
    /\ \E i, j \in 1..Len(load.all_datasets) :
        /\ i # j
        /\ load.all_datasets[i].time = load.all_datasets[j].time

\* C5: when a slice of the current run and a slice of the previous run have the
\* same time, the assembled dataset holds the current run's slice at that time.
C5_PrimaryWins ==
    load.outcome = "assembled" =>
        \A i, j \in 1..Len(load.all_datasets) :
            LET p == load.all_datasets[i]
                f == load.all_datasets[j]
            IN  (/\ p.time = f.time
                 /\ p.run = [date |-> load.date, run |-> load.model_run]
                 /\ f.run # p.run)
                => (/\ \E k \in 1..Len(load.result) :
                        load.result[k].run = p.run /\ load.result[k].hour = p.hour
                    /\ \A k \in 1..Len(load.result) :
                        load.result[k].time = p.time => load.result[k].run = p.run)

\* an assembly where hour 0 of the current run and hour 6 of the previous run
\* were both loaded
C5_Witness ==
    /\ load.outcome = "assembled"
    /\ \E i, j \in 1..Len(load.all_datasets) :
        /\ load.all_datasets[i].run = [date |-> load.date, run |-> load.model_run]
        /\ load.all_datasets[j].run = PrevRun(load.model_run, load.date)
        /\ load.all_datasets[i].time = load.all_datasets[j].time

-----------------------------------------------------------------------------
(* The dataset cache *)

\* C6: a call is a cache hit only if the cached dataset was stored for the same
\* date and the same run hour: a call for the same hour of a later date is no hit
\* (stated for the runs that have started).
C6_KeyedByDateAndHour ==
    (/\ load.outcome = "hit"
     /\ RunTime(load.date, load.model_run) <= now
     /\ load.date >= cached_date)
        => (load.model_run = cached_model_run /\ load.date = cached_date)

\* C7: a call with a usable run that loads nothing, no file found or every open
\* failing, returns the cached dataset whenever there is one (stated for the runs
\* that have started).
C7_LastKnownGood ==
    (/\ load.outcome \in {"nothing_loaded", "exception"}
     /\ load.all_datasets = <<>>
     /\ load.needed_runs # <<>>
     /\ RunTime(load.date, load.model_run) <= now
     /\ cached_dataset # None)
        => load.result = cached_dataset

-----------------------------------------------------------------------------
(* GFSWindClient._get_grib_file *)

\* C8: after a cache miss _get_grib_file returns the path exactly when the
\* response is a 200 of at least 100 bytes and the write succeeds; in every other
\* case it returns None.
C8_PathIffSaved ==
    op.kind = "download" =>
        /\ op.result \in {op.path, NoPath}
        /\ op.result = op.path <=>
            (/\ op.response.kind = "response"
             /\ op.response.status = 200
             /\ op.response.size >= 100
             /\ op.response.write = "ok")

\* a 200 of exactly 100 bytes, saved, and its path returned
C8_Witness ==
    /\ op.kind = "download"
    /\ op.response.status = 200
    /\ op.response.size = 100
    /\ op.result = op.path
    /\ op.path \in DOMAIN dir

\* C9: when _get_grib_file returns None after a cache miss, no file exists at the
\* path.
C9_AbsentLeavesNoFile ==
    (op.kind = "download" /\ op.result = NoPath) => op.path \notin DOMAIN dir

\* C10: when the file exists _get_grib_file returns its path, issues no GET and
\* leaves the directory as it was; a GET is issued only when no file exists at the
\* path.
C10_HitWithoutNetwork ==
    /\ (op.kind \in {"hit", "request"} /\ op.path \in DOMAIN op.before)
        => (/\ op.kind = "hit"
            /\ op.result = op.path
            /\ ~op.requested
            /\ dir = op.before)
    /\ (op.kind = "request" \/ (op.kind = "hit" /\ op.requested))
        => op.path \notin DOMAIN op.before

\* a second request finds the file the first one saved
C10_Witness ==
    /\ op.kind = "hit"
    /\ op.path \in DOMAIN op.before
    /\ op.result = op.path

-----------------------------------------------------------------------------
(* GFSWindClient.get_station_wind_forecast *)

\* C11: when at least one hour of the loop was acquired and processed the
\* request is answered 200, with one point for each hour that succeeded and no
\* other point, whatever the other hours came to.
C11_PartialSuccess ==
    wind_resp # NoWindResponse =>
        LET ok == {wind_resp.log[k].hour :
                     k \in {j \in 1..Len(wind_resp.log) :
                              wind_resp.log[j].acquired /\ wind_resp.log[j].processed}}
        IN  ok # {} =>
                /\ wind_resp.http = 200
                /\ {wind_resp.forecasts[k].hour : k \in 1..Len(wind_resp.forecasts)} = ok
                /\ Len(wind_resp.forecasts) = Cardinality(ok)

\* a request of which one hour was not acquired and another gave a point
C11_Witness ==
    /\ wind_resp.http = 200
    /\ \E k \in 1..Len(wind_resp.log) : ~wind_resp.log[k].acquired
    /\ \E k \in 1..Len(wind_resp.log) : wind_resp.log[k].processed
    /\ Len(wind_resp.forecasts) < Len(wind_resp.log)

\* C15: while the GET of one hour is outstanding and hours remain, the fetch of
\* another hour can start.
C15_OtherHourCanStart ==
    (wind.pc = "download" /\ wind.i < MaxWindHours)
        => ENABLED (NextWind /\ op'.kind = "request" /\ op'.path # wind.file_path)

-----------------------------------------------------------------------------
(* The points of a response *)

\* C12: the points of a wave response and of a wind response are in strictly
\* ascending order of time: no time appears twice.
C12_PointsAscending ==
    LET Minutes(f) ==
            (IF f[2] = 4 THEN f[3] - 31 ELSE f[3] - 1) * 1440 + f[4] * 60 + f[5]
    IN  /\ \A i \in 1..(Len(wave_resp.forecasts) - 1) :
              Minutes(wave_resp.forecasts[i].time)
                  < Minutes(wave_resp.forecasts[i + 1].time)
        /\ \A i \in 1..(Len(wind_resp.forecasts) - 1) :
              wind_resp.forecasts[i].time < wind_resp.forecasts[i + 1].time

\* a wave response of two points, made from slices loaded later-time first
C12_Witness ==
    /\ wave_resp.http = 200
    /\ Len(wave_resp.forecasts) = 2
    /\ Len(load.all_datasets) = 2
    /\ load.all_datasets[1].time > load.all_datasets[2].time

-----------------------------------------------------------------------------
(* The dataset cache and the executor thread *)

\* C13: a call that is a cache hit returns a dataset made by an assembly for the
\* run it asked for: the key it matched and the dataset it took are of one
\* assembly.
C13_HitPairOfOneAssembly ==
    load.outcome = "hit" => cached_for.run = load.model_run

\* C14: while the executor thread's assembly for a run is in progress, no request
\* executes an assembly of its own for the same run.
C14_SingleFlight ==
    ~(/\ preload.pc # "idle"
      /\ load.outcome = "assembled"
      /\ load.model_run = preload.l.model_run
      /\ load.date = preload.l.date)

\* C16: at every time the wind dict holds speed and direction or nothing, and
\* the wave dict holds wind_height, wind_period and wind_direction or none of
\* them; a group is there exactly when every field of it is a number.
C16_GroupsAllOrNothing ==
    (calc.kind = "point" /\ calc.done) =>
        LET Has(var) == var \in DOMAIN calc.in /\ ~calc.in[var].nan
            wind_wave == {"wind_height", "wind_period", "wind_direction"}
        IN  /\ DOMAIN calc.out.wind =
                  IF Has("wind_speed") /\ Has("wind_direction")
                  THEN {"speed", "direction"} ELSE {}
            /\ DOMAIN calc.out.wave \cap wind_wave =
                  IF /\ Has("wind_wave_height")
                     /\ Has("wind_wave_period")
                     /\ Has("wind_wave_direction")
                  THEN wind_wave ELSE {}

\* a point with a wind speed but no wind direction, and a wind wave height but
\* a NaN wind wave period, next to a primary wave height: neither group is there
C16_Witness ==
    /\ calc.kind = "point" /\ calc.done
    /\ {"wind_speed", "wind_wave_height", "wind_wave_period",
        "wind_wave_direction", "wave_height"} \subseteq DOMAIN calc.in
    /\ "wind_direction" \notin DOMAIN calc.in
    /\ ~calc.in["wind_speed"].nan
    /\ ~calc.in["wind_wave_height"].nan
    /\ calc.in["wind_wave_period"].nan
    /\ ~calc.in["wind_wave_direction"].nan
    /\ ~calc.in["wave_height"].nan
    /\ DOMAIN calc.out.wind = {}
    /\ DOMAIN calc.out.wave = {"height"}

\* C17: the swell list holds exactly the ranks whose height, period and
\* direction are all numbers, in rank order, each with its own values; it has
\* between 0 and 3 entries.
C17_SwellCompleteRanks ==
    (calc.kind = "point" /\ calc.done) =>
        LET arrays == {"swell_height", "swell_period", "swell_direction"}
            complete ==
                IF arrays \subseteq DOMAIN calc.in
                THEN {j \in 1..Ranks : \A var \in arrays : ~calc.in[var][j].nan}
                ELSE {}
            swell == calc.out.swell
        IN  /\ Len(swell) = Cardinality(complete)
            /\ Len(swell) <= 3
            /\ \E rank \in [1..Len(swell) -> complete] :
                  /\ \A k \in 1..Len(swell) : \A m \in 1..Len(swell) :
                        k < m => rank[k] < rank[m]
                  /\ \A k \in 1..Len(swell) :
                        swell[k] = [height    |-> 10 * rank[k] + 2,
                                    period    |-> 10 * rank[k] + 103,
                                    direction |-> 10 * rank[k] + 2005]

\* the second rank lacks its period; the first and the third are listed
C17_Witness ==
    /\ calc.kind = "point" /\ calc.done
    /\ {"swell_height", "swell_period", "swell_direction"} \subseteq DOMAIN calc.in
    /\ calc.in["swell_period"][2].nan
    /\ ~calc.in["swell_height"][2].nan
    /\ \A var \in DOMAIN calc.in : \A j \in {1, 3} : ~calc.in[var][j].nan
    /\ Len(calc.out.swell) = 2
    /\ calc.out.swell[2].height = 32

\* C18: on each axis the lookup returns an index whose coordinate is nearest to
\* the value searched, and the lowest such index.
C18_NearestLowestIndex ==
    (calc.kind \in {"wave_nearest", "wind_nearest"} /\ calc.done) =>
        LET Nearest(axis, x, idx) ==
                /\ idx \in 1..Len(axis)
                /\ \A j \in 1..Len(axis) :
                      /\ Abs(axis[idx] - x) <= Abs(axis[j] - x)
                      /\ j < idx => Abs(axis[idx] - x) < Abs(axis[j] - x)
        IN  /\ Nearest(calc.in.latitude, calc.in.lat, calc.out.lat_idx)
            /\ Nearest(calc.in.longitude, calc.out.lon, calc.out.lon_idx)

\* two different latitudes are equally near and the first of them is returned
C18_Witness ==
    /\ calc.kind = "wind_nearest" /\ calc.done
    /\ \E j \in 1..Len(calc.in.latitude) :
          /\ calc.out.lat_idx < j
          /\ calc.in.latitude[j] # calc.in.latitude[calc.out.lat_idx]
          /\ Abs(calc.in.latitude[j] - calc.in.lat)
                = Abs(calc.in.latitude[calc.out.lat_idx] - calc.in.lat)

\* C19: in the wave path and in the wind path a station longitude below 0 is
\* looked up as lon + 360: the column returned is the one nearest to lon + 360.
C19_NegativeLongitudeTo360 ==
    (calc.kind \in {"wave_nearest", "wind_nearest"} /\ calc.done /\ calc.in.lon < 0) =>
        \A j \in 1..Len(calc.in.longitude) :
            Abs(calc.in.longitude[calc.out.lon_idx] - (calc.in.lon + 360))
                <= Abs(calc.in.longitude[j] - (calc.in.lon + 360))

\* C20: the direction of _calculate_wind is in [0, 360) and is the bearing the
\* wind blows from: 270, 180, 90 and 0 for the vectors along the axes.
C20_DirectionBlowsFrom ==
    (calc.kind = "calculate_wind" /\ calc.done) =>
        LET u == calc.in.u
            v == calc.in.v
            direction == calc.out.direction
        IN  /\ 0 <= direction /\ direction < 360
            /\ (u > 0 /\ v = 0) => direction = 270
            /\ (u = 0 /\ v > 0) => direction = 180
            /\ (u < 0 /\ v = 0) => direction = 90
            /\ (u = 0 /\ v < 0) => direction = 0

-----------------------------------------------------------------------------
(* Unit conversion *)

\* C21: each raw wave height is converted once and rounded to one decimal: the
\* forecasts are one per time, in time order, and the height of each is the
\* tenth nearest to its raw height times 3.28084: 3.3, 3.9 and 4.9 ft for 1.0,
\* 1.2 and 1.5 m.
C21_ConvertedOnceRounded ==
    (calc.kind = "forecasts" /\ calc.done) =>
        /\ Len(calc.out) = Len(calc.in)
        /\ \A i \in 1..(Len(calc.out) - 1) :
              /\ IsoLeq(calc.out[i].time, calc.out[i + 1].time)
              /\ calc.out[i].time # calc.out[i + 1].time
        /\ \A i \in 1..Len(calc.in) :
              LET raw == calc.in[i].data.swh
                  wave == calc.out[i].wave
              IN  IF raw.nan THEN "height" \notin DOMAIN wave
                  ELSE /\ "height" \in DOMAIN wave
                       /\ Abs(wave.height * 1000000 - raw.v * 328084) <= 500000
                       /\ raw.v = 100 => wave.height = 33
                       /\ raw.v = 120 => wave.height = 39
                       /\ raw.v = 150 => wave.height = 49

\* hours 0, 3 and 6 with 1.0, 1.2 and 1.5 m give 3.3, 3.9 and 4.9 ft
C21_Witness ==
    /\ calc.kind = "forecasts" /\ calc.done
    /\ [i \in 1..3 |-> calc.in[i].data.swh.v] = <<100, 120, 150>>
    /\ \A i \in 1..3 : ~calc.in[i].data.swh.nan
    /\ Len(calc.out) = 3
    /\ [i \in 1..3 |-> calc.out[i].wave.height] = <<33, 39, 49>>

-----------------------------------------------------------------------------
(* The previous run *)

\* C22: for every run hour the fallback is the run whose time is 6 hours before
\* the primary's, yesterday's 18z for a 00z primary; needed_runs holds the primary
\* if it is usable, then the fallback if it is usable, and nothing else.
C22_FallbackSixHoursBefore ==
    load.outcome \notin {"none", "hit"} =>
        LET primary   == [date |-> load.date, run |-> load.model_run]
            run_time  == load.date * 1440 + IntOf(load.model_run) * 60
            fallbacks == {c \in [date : (0 - 1)..MaxDate, run : ModelRuns] :
                            c.date * 1440 + IntOf(c.run) * 60 = run_time - 6 * 60}
        IN  /\ Cardinality(fallbacks) = 1
            /\ \A fallback \in fallbacks :
                  /\ load.model_run = "00"
                        => fallback = [date |-> load.date - 1, run |-> "18"]
                  /\ load.needed_runs =
                        (IF now - run_time >= 210 THEN <<primary>> ELSE <<>>)
                        \o (IF now - (run_time - 6 * 60) >= 210
                            THEN <<fallback>> ELSE <<>>)

\* a call for the 00z run of day 1 once it is usable: the primary, then the 18z
\* run of day 0
C22_Witness ==
    /\ load.outcome \notin {"none", "hit"}
    /\ load.model_run = "00"
    /\ load.date = 1
    /\ load.needed_runs = <<[date |-> 1, run |-> "00"], [date |-> 0, run |-> "18"]>>

-----------------------------------------------------------------------------
(* The storage directory and the model run *)

C24_OneGenerationOnDisk ==
    wind_model_run # NoModelRun =>
        \A n \in DOMAIN dir :
            EndsWith(n, ".grib2")
            => Contains("_" \o DateStr(wind_model_run.run_date) \o "_"
                           \o Zfill2(ToString(wind_model_run.cycle_hour)) \o "z_", n)

\* C30: every point of a wind response comes from a file of the model run that
\* the response's model_run names, under every interleaving of update_model_run
\* with the hours of the request.
C30_PointsOfLabelledRun ==
    wind_resp.http = 200 =>
        \A k \in 1..Len(wind_resp.forecasts) :
            ModelRunLabel(wind_resp.forecasts[k].run) = wind_resp.model_run

-----------------------------------------------------------------------------
(* Failures while loading *)

\* C25: a file whose open raises costs its own hour only: every file of the
\* call that opens is a slice of the loaded list, not closed, the call assembles
\* a dataset, and the dataset holds a slice at that file's time; also when the
\* file that fails is the first one opened.
C25_OpenFailureAbsorbed ==
    load.outcome \notin {"none", "hit"} =>
        \A f \in load.openable :
            /\ load.outcome = "assembled"
            /\ \E i \in 1..Len(load.all_datasets) :
                  /\ load.all_datasets[i].run = f.run
                  /\ load.all_datasets[i].hour = f.hour
                  /\ ~load.all_datasets[i].closed
            /\ \E j \in 1..Len(load.result) :
                  load.result[j].time =
                      f.run.date * 1440 + IntOf(f.run.run) * 60 + f.hour * 60

\* C26: the cache starts empty; a call that assembles a dataset leaves that
\* dataset and its run in the cache, and every other step, a call that fails or
\* loads nothing among them, leaves the cached dataset and its run as they were.
C26_CacheWrittenOnSuccess ==
    /\ cached_dataset = None
    /\ cached_model_run = NoRun
    /\ [][IF load'.outcome = "assembled"
          THEN /\ cached_dataset' = load'.result
               /\ cached_model_run' = load'.model_run
          ELSE UNCHANGED <<cached_dataset, cached_model_run>>]_vars

\* a call for another run than the cached one that loaded nothing, the cache
\* still holding the earlier dataset
C26_Witness ==
    /\ load.outcome \in {"no_runs", "nothing_loaded", "exception"}
    /\ load.result = None
    /\ cached_dataset # None
    /\ cached_model_run # load.model_run

-----------------------------------------------------------------------------
(* The end of a request *)

\* C27: a wind request that has started is answered; an answer is 200 (Done),
\* 503 (Unavailable) or an error, it is not replaced by another answer, and the
\* request is over when it is given. 503 is given only when there is no model
\* run or no hour gave a point (wind), and only when there is no usable run or
\* the load returned no dataset (wave). Hours that fail never make a wind
\* request an error, and a file that fails to open never makes a wave request
\* one.
C27_RequestsTerminate ==
    /\ (wind.pc # "idle") ~> (wind_resp # NoWindResponse)
    /\ [][wind_resp # NoWindResponse => wind_resp' \in {wind_resp, NoWindResponse}]_vars
    /\ [][wave_resp # NoResponse => wave_resp' \in {wave_resp, NoResponse}]_vars
    /\ [](wind_resp # NoWindResponse =>
            /\ wind.pc = "idle"
            /\ wind_resp.http \in {200, 503}
            /\ wind_resp.http = 503 =>
                  \A k \in 1..Len(wind_resp.log) : ~wind_resp.log[k].processed)
    /\ [](wave_resp # NoResponse =>
            /\ wave_resp.http \in {200, 503, 404}
            /\ wave_resp.http = 503 =>
                  /\ load.outcome \in {"no_runs", "nothing_loaded", "exception"}
                  /\ load.result = None
            /\ wave_resp.http = 404 => load = NoLoad)

\* a wind request whose first hour failed and which was answered 200
C27_Witness ==
    /\ wind_resp.http = 200
    /\ wind.pc = "idle"
    /\ Len(wind_resp.log) = MaxWindHours
    /\ ~wind_resp.log[1].acquired

-----------------------------------------------------------------------------
(* An unknown station *)

\* C28: a request for a station id the registry does not hold is answered 404
\* (station not found) in a step that loads nothing (no run resolved, no file
\* probed or opened) and leaves the dataset cache and the grid-file cache as
\* they were.
C28_UnknownStationTouchesNothing ==
    [][(wave_resp = NoResponse /\ wave_resp' # NoResponse
            /\ ~(wave_resp'.station_id \in Registry))
        => /\ wave_resp'.http = 404
           /\ wave_resp'.forecasts = <<>>
           /\ load' = NoLoad
           /\ UNCHANGED <<cached_dataset, cached_model_run, cached_date,
                          cached_for, dir, wind_model_run>>]_vars

\* station 99999 asked for while a dataset is cached, answered 404
C28_Witness ==
    /\ wave_resp.http = 404
    /\ wave_resp.station_id = "99999"
    /\ cached_dataset # None
    /\ load = NoLoad

-----------------------------------------------------------------------------
(* The names of the cached grid files *)

\* C29: get_file_path gives two tuples (station id, run date, cycle hour,
\* forecast hour) the same path exactly when the tuples are equal: one tuple
\* has one path, and no path is shared by two tuples.
C29_PathInjective ==
    (calc.kind = "paths" /\ calc.done)
        => ((calc.out.a = calc.out.b) <=> (calc.in.a = calc.in.b))

\* two tuples that differ in the forecast hour only, 3 and 30, named apart
C29_Witness ==
    /\ calc.kind = "paths" /\ calc.done
    /\ calc.in.a.forecast_hour = 3 /\ calc.in.b.forecast_hour = 30
    /\ calc.in.a = [calc.in.b EXCEPT !.forecast_hour = 3]
    /\ calc.out.a # calc.out.b

-----------------------------------------------------------------------------
(* The cached dataset and the run it is stored under *)

\* C31: a call for a usable run R that is a cache hit for a dataset stored for
\* R's date and hour returns a dataset that holds at least one slice of R
\* itself: a dataset assembled from the previous run only is not returned as a
\* hit for R.
C31_HitHoldsOwnSlices ==
    (/\ load.outcome = "hit"
     /\ load.date = cached_date
     /\ Usable(now, load.date, load.model_run))
        => \E i \in 1..Len(load.result) :
              load.result[i].run = [date |-> load.date, run |-> load.model_run]

====
